---- MODULE Spec2Model ----
(***************************************************************************)
(* Verification model of tech-news-discord-bot: the scorer and selector    *)
(* (src/filter.py), the provider gateway (src/providers/*.py), the         *)
(* summarization orchestrator (src/summarizer.py), the notification        *)
(* dispatcher (src/notifier.py) and the entry point that drives them       *)
(* (src/main.py).                                                          *)
(*                                                                         *)
(* Durations are integers in tenths of a second (2.0 s is 20, 0.5 s is 5). *)
(* Strings are TLA+ strings drawn from small sets; str.lower, str.strip and*)
(* the substring test are tables over those sets. The text filter.py       *)
(* searches is a sequence of characters, its scores are integers in        *)
(* hundredths and its clock counts whole hours.                            *)
(***************************************************************************)
EXTENDS Integers, Sequences, FiniteSets, TLC

VARIABLES
    \* ---- configuration and environment of one run (never modified) ----
    ai_enabled,      \* settings ai.enabled
    ai_provider,     \* settings ai.provider; NoValue when the key is absent
    summary_prompt,  \* settings ai.summary_prompt
    api_key,         \* the selected backend's credential in the environment
    dry_run,         \* DRY_RUN
    webhook_url,     \* DISCORD_WEBHOOK_URL
    \* ---- main ----
    mpc,             \* position of main
    exit_status,     \* process exit status once mpc = "exited"
    articles,        \* the filtered list, mutated in place
    trace,           \* history: constructions, gateway calls, pacing sleeps, POSTs
    \* ---- summarize_all ----
    provider,        \* the provider instance of the batch, NoProvider before
    delay,           \* pacing delay chosen for the batch
    idx,             \* index of the article of the current loop iteration
    \* ---- provider.call ----
    cpc,             \* position of call: idle, try, returned, raised
    backend,         \* class of the instance call runs on
    attempt,         \* loop variable of call
    outcomes,        \* history: one entry per invocation of the backend: the
                     \* attempt number, what the backend answered, and the
                     \* time.sleep requested after it (NoSleep when none)
    result,          \* value returned by call
    \* ---- send_notification ----
    npc,             \* position of send_notification
    all_embeds,      \* header embed plus one embed per article
    chunk_start,     \* loop variable i of the chunk loop
    success,         \* local flag of send_notification
    posts,           \* history: payloads POSTed, with the outcome of each
    sent,            \* value returned by send_notification
    \* ---- fetch_all, filter_articles, score_article ----
    keywords,        \* settings keywords
    max_articles,    \* settings discord.max_articles
    now,             \* the clock datetime.now reads, in hours
    fetched,         \* history: the list as fetch_all returned it
    all_articles,    \* the fetched list, its articles as filter_articles leaves them
    fpc,             \* position of filter_articles: idle, called, returned
    score_calls,     \* history: one entry per invocation of score_article
    selected         \* history: the list as filter_articles returned it

cfgVars  == <<ai_enabled, ai_provider, summary_prompt, api_key, dry_run, webhook_url>>
mainVars == <<mpc, exit_status, articles, trace>>
sumVars  == <<provider, delay, idx>>
callVars == <<cpc, backend, attempt, outcomes, result>>
sendVars == <<npc, all_embeds, chunk_start, success, posts, sent>>
filterVars == <<keywords, max_articles, now, fetched, all_articles, fpc, score_calls,
                selected>>
vars     == <<cfgVars, mainVars, sumVars, callVars, sendVars, filterVars>>

\* ------------------------------------------------------------------ bounds
MaxArticles     == 2    \* articles of a run of main
MaxSendArticles == 20   \* articles handed to send_notification on its own
MaxFilterArticles == 3  \* articles handed to filter_articles on its own
MaxTicks        == 1    \* hours the clock advances while it is observed
MaxScoreCalls   == 2    \* invocations of score_article on its own

\* ----------------------------------------------------------------- strings
NoValue    == "<absent>"
NoProvider == "<none>"

\* str.lower() on the strings of the model
Lower(s) ==
    CASE s = "Gemini"  -> "gemini"
      [] s = "CLAUDE " -> "claude "
      [] s = "400 GenerateContentRequest.contents: contents is not specified"
           -> "400 generatecontentrequest.contents: contents is not specified"
      [] s = "429 Resource has been exhausted (e.g. check quota)."
           -> "429 resource has been exhausted (e.g. check quota)."
      [] s = "500 An internal error has occurred"
           -> "500 an internal error has occurred"
      [] s = "Invalid operation: response.text requires a valid Part"
           -> "invalid operation: response.text requires a valid part"
      [] OTHER -> s

\* str.strip() on the strings of the model
Strip(s) ==
    CASE s = " gemini"   -> "gemini"
      [] s = "claude "   -> "claude"
      [] s = "CLAUDE "   -> "CLAUDE"
      [] s = " summary " -> "summary"
      [] s = "  "        -> ""
      [] OTHER           -> s

\* The probe strings of gemini.py that occur in s (Python's `probe in s`,
\* which is case-sensitive).
Probes(s) ==
    CASE s \in { "429 Resource has been exhausted (e.g. check quota).",
                 "429 resource has been exhausted (e.g. check quota)." }
           -> {"429", "quota"}
      [] s = "404 models/gemini-x is not found"
           -> {"404", "not found"}
      [] s = "400 generatecontentrequest.contents: contents is not specified"
           -> {"rate"}
      [] OTHER -> {}

Contains(s, probe) == probe \in Probes(s)

\* ---------------------------------------------------------------- backends
Backends == {"claude", "chatgpt", "gemini"}

\* What one invocation of a backend SDK can produce.  kind is what really
\* happened: "ok" a well-formed response carrying text, "malformed" a response
\* without the text the accessor expects (the accessor raises), "rate" a
\* rate-limit error (HTTP 429), "notfound" an unknown model (HTTP 404),
\* "other" any other API error.  text is the response text or str(exc).
Responses == {[kind |-> "ok", text |-> t] : t \in {"summary", " summary ", "  "}}

SdkOutcomes ==
    Responses \cup
    { [kind |-> "malformed", text |-> "list index out of range"],
      [kind |-> "rate",      text |-> "429 rate limit exceeded"],
      [kind |-> "notfound",  text |-> "404 model not found"],
      [kind |-> "other",     text |-> "500 internal server error"] }

GeminiOutcomes ==
    Responses \cup
    { [kind |-> "malformed",
       text |-> "Invalid operation: response.text requires a valid Part"],
      [kind |-> "rate",
       text |-> "429 Resource has been exhausted (e.g. check quota)."],
      [kind |-> "notfound",
       text |-> "404 models/gemini-x is not found"],
      [kind |-> "other",
       text |-> "500 An internal error has occurred"],
      [kind |-> "other",
       text |-> "400 GenerateContentRequest.contents: contents is not specified"] }

Outcomes(b) == IF b = "gemini" THEN GeminiOutcomes ELSE SdkOutcomes

\* ------------------------------------------------------------ provider.call
Claude_RETRY_MAX        == 3
Claude_RETRY_DELAY_SEC  == 20
ChatGPT_RETRY_MAX       == 3
ChatGPT_RETRY_DELAY_SEC == 20
Gemini_RETRY_MAX            == 5
Gemini_RETRY_DELAY_BASE_SEC == 50
Gemini_RETRY_DELAY_MAX_SEC  == 300

Min(a, b) == IF a < b THEN a ELSE b

RECURSIVE Pow2(_)
Pow2(n) == IF n = 0 THEN 1 ELSE 2 * Pow2(n - 1)

RetryMax(b) ==
    CASE b = "claude"  -> Claude_RETRY_MAX
      [] b = "chatgpt" -> ChatGPT_RETRY_MAX
      [] b = "gemini"  -> Gemini_RETRY_MAX

\* Variant: range(1, _RETRY_MAX + 2), one iteration too many.
InRetryRangeOffByOne(b, a) == a >= 1 /\ a <= RetryMax(b) + 1

\* `for attempt in range(1, _RETRY_MAX + 1)`: the loop body runs for a.
InRetryRange(b, a) == a >= 1 /\ a <= RetryMax(b)

\* What the body of the retry loop does with one backend outcome:
\*   [act |-> "return", value |-> s]   return s
\*   [act |-> "sleep",  wait  |-> w]   time.sleep(w), then the next iteration
\*   [act |-> "raise"]                 the exception leaves call
Return(s) == [act |-> "return", value |-> s, wait |-> 0]
Sleep(w)  == [act |-> "sleep",  value |-> "", wait |-> w]
Raise     == [act |-> "raise",  value |-> "", wait |-> 0]

ClaudeBackoff(a)  == Claude_RETRY_DELAY_SEC * a
ChatGPTBackoff(a) == ChatGPT_RETRY_DELAY_SEC * a
\* Variant: the exponential backoff without its cap.
GeminiBackoffUncapped(a) == Gemini_RETRY_DELAY_BASE_SEC * Pow2(a - 1)

GeminiBackoff(a) ==
    Min(Gemini_RETRY_DELAY_BASE_SEC * Pow2(a - 1), Gemini_RETRY_DELAY_MAX_SEC)

\* ClaudeProvider.call, one iteration.  message.content[0].text raises
\* IndexError/AttributeError on a response without a text block; only
\* anthropic.RateLimitError and anthropic.APIError are caught.
ClaudeAttempt(a, o) ==
    CASE o.kind = "ok"        -> Return(Strip(o.text))
      [] o.kind = "malformed" -> Raise
      [] o.kind = "rate"      -> Sleep(ClaudeBackoff(a))
      [] OTHER                -> Return("")

\* ChatGPTProvider.call, one iteration.  message.content is None on a response
\* without text, and None.strip() raises AttributeError; only RateLimitError
\* and APIError are caught.
ChatGPTAttempt(a, o) ==
    CASE o.kind = "ok"        -> Return(Strip(o.text))
      [] o.kind = "malformed" -> Raise
      [] o.kind = "rate"      -> Sleep(ChatGPTBackoff(a))
      [] OTHER                -> Return("")

\* GeminiProvider.call: the two substring tests on str(exc).
GeminiIsNotFound(error_str) ==
    Contains(error_str, "404") \/ Contains(Lower(error_str), "not found")

GeminiIsRateLimit(error_str) ==
    \/ Contains(error_str, "429")
    \/ Contains(Lower(error_str), "rate")
    \/ Contains(Lower(error_str), "quota")

\* GeminiProvider.call, one iteration.  Every exception is caught, the one
\* response.text raises included, and classified by its text.
GeminiAttempt(a, o) ==
    IF o.kind = "ok" THEN Return(Strip(o.text))
    ELSE IF GeminiIsNotFound(o.text) THEN Return("")
    ELSE IF GeminiIsRateLimit(o.text) THEN Sleep(GeminiBackoff(a))
    ELSE Return("")

Attempt(b, a, o) ==
    CASE b = "claude"  -> ClaudeAttempt(a, o)
      [] b = "chatgpt" -> ChatGPTAttempt(a, o)
      [] b = "gemini"  -> GeminiAttempt(a, o)

NoSleep == -1

Entry(a, o, w) == [attempt |-> a, kind |-> o.kind, text |-> o.text, wait |-> w]

\* One iteration of the retry loop of call: the backend is invoked and its
\* outcome handled.
CallAttempt ==
    /\ cpc = "try"
    /\ InRetryRange(backend, attempt)
    /\ \E o \in Outcomes(backend) :
         LET d == Attempt(backend, attempt, o) IN
         CASE d.act = "return" ->
                /\ outcomes' = Append(outcomes, Entry(attempt, o, NoSleep))
                /\ cpc' = "returned"
                /\ result' = d.value
                /\ UNCHANGED attempt
           [] d.act = "raise" ->
                /\ outcomes' = Append(outcomes, Entry(attempt, o, NoSleep))
                /\ cpc' = "raised"
                /\ UNCHANGED <<attempt, result>>
           [] d.act = "sleep" ->
                /\ outcomes' = Append(outcomes, Entry(attempt, o, d.wait))
                /\ attempt' = attempt + 1
                /\ UNCHANGED <<cpc, result>>
    /\ UNCHANGED <<backend, cfgVars, filterVars, mainVars, sumVars, sendVars>>

\* The loop ran out of attempts: log and return "".
CallExhausted ==
    /\ cpc = "try"
    /\ ~InRetryRange(backend, attempt)
    /\ cpc' = "returned"
    /\ result' = ""
    /\ UNCHANGED <<backend, attempt, outcomes,
                   cfgVars, filterVars, mainVars, sumVars, sendVars>>

\* ------------------------------------------------------------ get_provider
PROVIDER_REGISTRY == {"claude", "chatgpt", "gemini"}

\* dict.get(key, default) on a settings value
Get(v, default) == IF v = NoValue THEN default ELSE v

\* ai_config.get("provider", "claude").lower().strip()
RegistryName(cfg) == Strip(Lower(Get(cfg, "claude")))

\* Variant: the credential is not checked when the instance is built.
GetProviderNoKeyCheck(cfg, key) ==
    LET provider_name == RegistryName(cfg) IN
    IF provider_name \notin PROVIDER_REGISTRY
    THEN [raised |-> "ValueError", cls |-> NoProvider]
    ELSE [raised |-> "", cls |-> provider_name]

\* get_provider: ValueError for a name that is not registered; otherwise the
\* class is instantiated, and its constructor raises EnvironmentError when the
\* credential is missing.
GetProvider(cfg, key) ==
    LET provider_name == RegistryName(cfg) IN
    IF provider_name \notin PROVIDER_REGISTRY
    THEN [raised |-> "ValueError", cls |-> NoProvider]
    ELSE IF key = ""
    THEN [raised |-> "EnvironmentError", cls |-> NoProvider]
    ELSE [raised |-> "", cls |-> provider_name]

\* ----------------------------------------------------------- summarize_all
DEFAULT_INTER_CALL_DELAY == 10

\* _INTER_CALL_DELAY.get(provider_name, 1.0)
INTER_CALL_DELAY(provider_name) ==
    CASE provider_name = "claude"  -> 5
      [] provider_name = "chatgpt" -> 5
      [] provider_name = "gemini"  -> 50
      [] OTHER                     -> DEFAULT_INTER_CALL_DELAY

\* ai_config.get("provider", "claude").lower()
DelayName(cfg) == Lower(Get(cfg, "claude"))

\* template.format(title=..., description=...) raises KeyError on a template
\* that names another field.
FormatRaises(template) == template = "{title} {body}"

\* An entry of trace: "construct" (a provider instance is built), "call"
\* (provider.call is entered for article i), "return" (that call returned
\* text), "pace" (the time.sleep after it), "summarized" (summarize_all
\* returned).
Event(ev, i, w, t) == [ev |-> ev, i |-> i, wait |-> w, text |-> t]

\* Python ends a process that an exception leaves with status 1.
UNCAUGHT_EXIT_STATUS == 1

Crash ==
    /\ mpc' = "exited"
    /\ exit_status' = UNCAUGHT_EXIT_STATUS

\* main, step 3 with ai.enabled: summarize_all is entered; get_provider
\* builds the provider of the batch, then the pacing delay is looked up.
SummarizeAllEnter ==
    /\ mpc = "step3"
    /\ ai_enabled
    /\ LET p == GetProvider(ai_provider, api_key) IN
       IF p.raised # ""
       THEN /\ Crash
            /\ UNCHANGED <<articles, trace, sumVars>>
       ELSE /\ provider' = p.cls
            /\ delay' = INTER_CALL_DELAY(DelayName(ai_provider))
            /\ idx' = 1
            /\ trace' = Append(trace, Event("construct", 0, 0, ""))
            /\ mpc' = "summarizing"
            /\ UNCHANGED <<exit_status, articles>>
    /\ UNCHANGED <<cfgVars, filterVars, callVars, sendVars>>

\* main, step 3 with ai.enabled false: summarize_all is skipped.
SummarizeSkip ==
    /\ mpc = "step3"
    /\ ~ai_enabled
    /\ mpc' = "step4"
    /\ UNCHANGED <<exit_status, articles, trace, cfgVars, filterVars, sumVars, callVars, sendVars>>

\* Variant: the loop stops after the first article whose call returned "".
HasNextArticleStopOnEmpty ==
    IF idx = 1 THEN idx <= Len(articles)
    ELSE idx <= Len(articles) /\ articles[idx - 1].summary # ""

\* `for article in articles`: another article is left.
HasNextArticle == idx <= Len(articles)

\* summarize_article up to provider.call: the prompt is built (which may
\* raise) and call is entered.
SummarizeArticleCall ==
    /\ mpc = "summarizing"
    /\ cpc = "idle"
    /\ HasNextArticle
    /\ IF FormatRaises(summary_prompt)
       THEN /\ Crash
            /\ UNCHANGED <<articles, trace, callVars>>
       ELSE /\ cpc' = "try"
            /\ backend' = provider
            /\ attempt' = 1
            /\ outcomes' = <<>>
            /\ result' = ""
            /\ trace' = Append(trace, Event("call", idx, 0, ""))
            /\ UNCHANGED <<mpc, exit_status, articles>>
    /\ UNCHANGED <<cfgVars, filterVars, sumVars, sendVars>>

\* Variant: the pacing sleep only follows a call that produced text.
PaceAfterSuccessOnly(r) ==
    IF r # "" THEN <<Event("pace", idx, delay, "")>> ELSE <<>>

\* time.sleep(delay) after the call of article idx
Pace(r) == <<Event("pace", idx, delay, "")>>

\* article.summary = summarize_article(...)
StoredSummary(r) == r

\* call returned: summarize_article returns the result, summarize_all stores
\* it in article.summary and sleeps.
SummarizeArticleStore ==
    /\ mpc = "summarizing"
    /\ cpc = "returned"
    /\ articles' = [articles EXCEPT ![idx].summary = StoredSummary(result)]
    /\ trace' = Append(trace, Event("return", idx, 0, result)) \o Pace(result)
    /\ idx' = idx + 1
    /\ cpc' = "idle"
    /\ UNCHANGED <<mpc, exit_status, provider, delay, backend, attempt, outcomes, result,
                   cfgVars, filterVars, sendVars>>

\* An exception left call: it leaves summarize_article, summarize_all and main.
SummarizeArticleRaise ==
    /\ mpc = "summarizing"
    /\ cpc = "raised"
    /\ Crash
    /\ cpc' = "idle"
    /\ UNCHANGED <<articles, trace, backend, attempt, outcomes, result,
                   cfgVars, filterVars, sumVars, sendVars>>

\* Variant: summarize_all hands the list back in reverse order.
SummarizeAllReturnReversed ==
    /\ mpc = "summarizing"
    /\ cpc = "idle"
    /\ ~HasNextArticle
    /\ mpc' = "step4"
    /\ articles' = [k \in 1..Len(articles) |-> articles[Len(articles) + 1 - k]]
    /\ trace' = Append(trace, Event("summarized", 0, 0, ""))
    /\ UNCHANGED <<exit_status, cfgVars, filterVars, sumVars, callVars, sendVars>>

\* summarize_all returns the list; main goes on to step 4.
SummarizeAllReturn ==
    /\ mpc = "summarizing"
    /\ cpc = "idle"
    /\ ~HasNextArticle
    /\ mpc' = "step4"
    /\ trace' = Append(trace, Event("summarized", 0, 0, ""))
    /\ UNCHANGED <<exit_status, articles, cfgVars, filterVars, sumVars, callVars, sendVars>>

\* -------------------------------------------------------- send_notification
CHUNK_SIZE == 10

HeaderEmbed(arts) ==
    [title |-> 0, count |-> Len(arts), description |-> <<"header">>]

\* The embed of one article: its description is the keyword tags and/or the
\* AI summary, or a placeholder.
ArticleEmbed(a) ==
    LET desc_parts ==
            (IF a.matched_keywords # <<>> THEN <<"tags">> ELSE <<>>) \o
            (IF a.summary # "" THEN <<a.summary>> ELSE <<>>)
    IN [title |-> a.id, count |-> 0,
        description |-> IF desc_parts # <<>> THEN desc_parts ELSE <<"no description">>]

\* _build_embeds
BuildEmbeds(arts) ==
    <<HeaderEmbed(arts)>> \o [k \in 1..Len(arts) |-> ArticleEmbed(arts[k])]

\* Variant: chunks of CHUNK_SIZE + 1 embeds.
ChunkOversize(embeds, i) ==
    SubSeq(embeds, i + 1, Min(i + CHUNK_SIZE + 1, Len(embeds)))

\* all_embeds[i : i + chunk_size]
Chunk(embeds, i) == SubSeq(embeds, i + 1, Min(i + CHUNK_SIZE, Len(embeds)))

\* What requests.post followed by raise_for_status can end in; all failures
\* are requests.RequestException.
PostOutcomes == {"ok", "http_error", "timeout", "connection_error"}

\* main, step 4: send_notification is called.
MainStep4 ==
    /\ mpc = "step4"
    /\ mpc' = "sending"
    /\ npc' = "called"
    /\ UNCHANGED <<exit_status, articles, trace, all_embeds, chunk_start, success,
                   posts, sent, cfgVars, filterVars, sumVars, callVars>>

\* Variant: the endpoint is required before dry-run is looked at.
SendNotificationEndpointFirst ==
    /\ npc = "called"
    /\ IF articles = <<>>
       THEN /\ sent' = FALSE
            /\ npc' = "returned"
            /\ UNCHANGED <<all_embeds, chunk_start, success>>
       ELSE /\ all_embeds' = BuildEmbeds(articles)
            /\ IF webhook_url = ""
               THEN /\ npc' = "raised"
                    /\ UNCHANGED <<chunk_start, success, sent>>
               ELSE IF dry_run
               THEN /\ sent' = TRUE
                    /\ npc' = "returned"
                    /\ UNCHANGED <<chunk_start, success>>
               ELSE /\ chunk_start' = 0
                    /\ success' = TRUE
                    /\ npc' = "loop"
                    /\ UNCHANGED sent
    /\ UNCHANGED <<posts, cfgVars, filterVars, mainVars, sumVars, callVars>>

\* Variant: dry-run is looked at before the empty list.
SendNotificationDryRunFirst ==
    /\ npc = "called"
    /\ all_embeds' = BuildEmbeds(articles)
    /\ IF dry_run
       THEN /\ sent' = TRUE
            /\ npc' = "returned"
            /\ UNCHANGED <<chunk_start, success>>
       ELSE IF articles = <<>>
       THEN /\ sent' = FALSE
            /\ npc' = "returned"
            /\ UNCHANGED <<chunk_start, success>>
       ELSE IF webhook_url = ""
       THEN /\ npc' = "raised"
            /\ UNCHANGED <<chunk_start, success, sent>>
       ELSE /\ chunk_start' = 0
            /\ success' = TRUE
            /\ npc' = "loop"
            /\ UNCHANGED sent
    /\ UNCHANGED <<posts, cfgVars, filterVars, mainVars, sumVars, callVars>>

\* Variant: the endpoint is never checked.
SendNotificationNoEndpointCheck ==
    /\ npc = "called"
    /\ IF articles = <<>>
       THEN /\ sent' = FALSE
            /\ npc' = "returned"
            /\ UNCHANGED <<all_embeds, chunk_start, success>>
       ELSE /\ all_embeds' = BuildEmbeds(articles)
            /\ IF dry_run
               THEN /\ sent' = TRUE
                    /\ npc' = "returned"
                    /\ UNCHANGED <<chunk_start, success>>
               ELSE /\ chunk_start' = 0
                    /\ success' = TRUE
                    /\ npc' = "loop"
                    /\ UNCHANGED sent
    /\ UNCHANGED <<posts, cfgVars, filterVars, mainVars, sumVars, callVars>>

\* send_notification up to the chunk loop.
SendNotification ==
    /\ npc = "called"
    /\ IF articles = <<>>
       THEN /\ sent' = FALSE
            /\ npc' = "returned"
            /\ UNCHANGED <<all_embeds, chunk_start, success>>
       ELSE /\ all_embeds' = BuildEmbeds(articles)
            /\ IF dry_run
               THEN /\ sent' = TRUE
                    /\ npc' = "returned"
                    /\ UNCHANGED <<chunk_start, success>>
               ELSE IF webhook_url = ""
               THEN /\ npc' = "raised"
                    /\ UNCHANGED <<chunk_start, success, sent>>
               ELSE /\ chunk_start' = 0
                    /\ success' = TRUE
                    /\ npc' = "loop"
                    /\ UNCHANGED sent
    /\ UNCHANGED <<posts, cfgVars, filterVars, mainVars, sumVars, callVars>>

\* Variant: a chunk that was delivered sets the flag again.
SuccessAfterLastWins(ok, outcome) == outcome = "ok"

\* Variant: the loop stops at the first failed chunk.
MoreChunksStopOnFailure == chunk_start < Len(all_embeds) /\ success

\* `for i in range(0, len(all_embeds), chunk_size)`: another chunk is left.
MoreChunks == chunk_start < Len(all_embeds)

\* try: post ... except RequestException: success = False
SuccessAfter(ok, outcome) == IF outcome = "ok" THEN ok ELSE FALSE

\* One iteration of the chunk loop: the chunk is POSTed once.
SendChunk ==
    /\ npc = "loop"
    /\ MoreChunks
    /\ \E outcome \in PostOutcomes :
         /\ posts' = Append(posts, [embeds |-> Chunk(all_embeds, chunk_start),
                                    outcome |-> outcome])
         /\ success' = SuccessAfter(success, outcome)
    /\ chunk_start' = chunk_start + CHUNK_SIZE
    /\ UNCHANGED <<npc, all_embeds, sent, cfgVars, filterVars, mainVars, sumVars, callVars>>

\* After the last chunk: return success.
SendReturn ==
    /\ npc = "loop"
    /\ ~MoreChunks
    /\ sent' = success
    /\ npc' = "returned"
    /\ UNCHANGED <<all_embeds, chunk_start, success, posts,
                   cfgVars, filterVars, mainVars, sumVars, callVars>>

\* Variant: an article left without a summary also fails the run.
MainExitStrict ==
    /\ mpc = "sending"
    /\ npc \in {"returned", "raised"}
    /\ mpc' = "exited"
    /\ exit_status' = IF npc = "raised" THEN UNCAUGHT_EXIT_STATUS
                      ELSE IF sent /\ (ai_enabled =>
                                 \A i \in 1..Len(articles) : articles[i].summary # "")
                      THEN 0 ELSE 1
    /\ UNCHANGED <<articles, trace, cfgVars, filterVars, sumVars, callVars, sendVars>>

\* main after send_notification: status 0 on success, sys.exit(1) on failure;
\* the EnvironmentError of a missing webhook leaves main.
MainExit ==
    /\ mpc = "sending"
    /\ npc \in {"returned", "raised"}
    /\ mpc' = "exited"
    /\ exit_status' = IF npc = "raised" THEN UNCAUGHT_EXIT_STATUS
                      ELSE IF sent THEN 0 ELSE 1
    /\ UNCHANGED <<articles, trace, cfgVars, filterVars, sumVars, callVars, sendVars>>

\* ------------------------------------------------- filter.py: score_article
\* Text (titles, descriptions, keywords) is a sequence of one-character
\* strings. Scores are integers in hundredths (5.0 is 500, 0.5 x 1.3 is 65):
\* every product the code forms is a multiple of 0.05 far apart from the next,
\* and two of them are equal as floats exactly when they are equal here.
\* Times are whole hours on one clock.

\* str.lower on the characters that occur.
LowerChar(c) ==
    CASE c = "A" -> "a"
      [] c = "C" -> "c"
      [] c = "I" -> "i"
      [] OTHER   -> c

\* The characters [^\w\s] matches among those that occur.
IsSymbol(c) == c \in {"+", ".", "!"}

NotSymbol(c) == ~IsSymbol(c)

\* _normalize: lower-case, then delete what is neither word nor space.
Normalize(text) ==
    SelectSeq([k \in 1..Len(text) |-> LowerChar(text[k])], NotSymbol)

\* len(re.findall(pattern, text)) for a literal pattern: matches are taken left
\* to right and do not overlap; an empty pattern matches at every position.
RECURSIVE FindAllCount(_, _, _)
FindAllCount(pattern, text, p) ==
    IF p + Len(pattern) - 1 > Len(text) THEN 0
    ELSE IF SubSeq(text, p, p + Len(pattern) - 1) = pattern
         THEN 1 + FindAllCount(pattern, text,
                               p + (IF pattern = <<>> THEN 1 ELSE Len(pattern)))
         ELSE FindAllCount(pattern, text, p + 1)

\* _count_keyword_hits: the Counter, keyed by the keywords with a hit.
CountKeywordHits(text, kws) ==
    LET normalized == Normalize(text)
        count(kw)  == FindAllCount(Normalize(kw), normalized, 1)
    IN [kw \in {kws[k] : k \in {j \in 1..Len(kws) : count(kws[j]) > 0}}
          |-> count(kw)]

\* Sum of the counts of a Counter.
RECURSIVE SumCounts(_)
SumCounts(hits) ==
    IF DOMAIN hits = {} THEN 0
    ELSE LET kw == CHOOSE k \in DOMAIN hits : TRUE
         IN hits[kw] + SumCounts([k \in DOMAIN hits \ {kw} |-> hits[k]])

\* Code points of the characters that occur.
Ord(c) ==
    CASE c = " " -> 32  [] c = "!" -> 33  [] c = "+" -> 43  [] c = "." -> 46
      [] c = "A" -> 65  [] c = "C" -> 67  [] c = "I" -> 73
      [] c = "a" -> 97  [] c = "c" -> 99  [] c = "e" -> 101 [] c = "i" -> 105
      [] c = "n" -> 110 [] c = "s" -> 115 [] c = "w" -> 119

\* str.__lt__: lexicographic by code point.
RECURSIVE StrLess(_, _)
StrLess(a, b) ==
    IF b = <<>> THEN FALSE
    ELSE IF a = <<>> THEN TRUE
    ELSE IF Head(a) = Head(b) THEN StrLess(Tail(a), Tail(b))
    ELSE Ord(Head(a)) < Ord(Head(b))

\* sorted(matched) for a set of strings.
RECURSIVE Sorted(_)
Sorted(strs) ==
    IF strs = {} THEN <<>>
    ELSE LET least == CHOOSE a \in strs : \A b \in strs \ {a} : StrLess(a, b)
         IN <<least>> \o Sorted(strs \ {least})

TITLE_WEIGHT == 300   \* count * 3.0
DESC_WEIGHT  == 100   \* count * 1.0

HOURS_24 == 24        \* timedelta(hours=24)
DAYS_7   == 7 * 24    \* timedelta(days=7)
DAYS_30  == 30 * 24   \* timedelta(days=30)

\* Variant: an age on a boundary still takes the higher boost.
RecencyBoostInclusive(age) ==
    IF age <= HOURS_24 THEN 500
    ELSE IF age <= DAYS_7 THEN 200
    ELSE IF age <= DAYS_30 THEN 50
    ELSE 0

\* The if/elif chain on age.
RecencyBoost(age) ==
    IF age < HOURS_24 THEN 500
    ELSE IF age < DAYS_7 THEN 200
    ELSE IF age < DAYS_30 THEN 50
    ELSE 0

\* The source ids that occur.
SourceIds == {"aws_blog", "databricks_blog", "medium_aws_tag", "devto"}

\* source_id.startswith(('aws_', 'databricks_'))
StartsWithOfficial(source_id) == source_id \in {"aws_blog", "databricks_blog"}

\* 1.3 or 1.0, in tenths.
SourceWeight(source_id) == IF StartsWithOfficial(source_id) THEN 13 ELSE 10

\* score_article, invoked when the clock reads t.
ScoreArticle(article, kws, t) ==
    LET title_hits    == CountKeywordHits(article.title, kws)
        desc_hits     == CountKeywordHits(article.description, kws)
        keyword_score == SumCounts(title_hits) * TITLE_WEIGHT
                         + SumCounts(desc_hits) * DESC_WEIGHT
        matched       == DOMAIN title_hits \cup DOMAIN desc_hits
        age           == t - article.published
        final_score   == ((keyword_score + RecencyBoost(age))
                          * SourceWeight(article.source_id)) \div 10
    IN [score |-> final_score, matched_kws |-> Sorted(matched)]

\* The clock at the start of what is observed, and the last hour observed.
Now0   == 1000
MaxNow == Now0 + MaxTicks

\* What one invocation of score_article is remembered by.
ScoreCall(i, t, r) ==
    [i |-> i, at |-> t, score |-> r.score, matched_kws |-> r.matched_kws]

\* Variant: score_article stores the matched keywords itself.
ScoreArticleCallStoring ==
    /\ Len(score_calls) < MaxScoreCalls
    /\ \E i \in 1..Len(all_articles) :
         LET r == ScoreArticle(all_articles[i], keywords, now) IN
         /\ score_calls' = Append(score_calls, ScoreCall(all_articles[i].id, now, r))
         /\ all_articles' = [all_articles EXCEPT ![i].matched_keywords = r.matched_kws]
    /\ UNCHANGED <<keywords, max_articles, now, fetched, fpc, selected,
                   cfgVars, mainVars, sumVars, callVars, sendVars>>

\* The clock moves on.
Tick ==
    /\ now < MaxNow
    /\ now' = now + 1
    /\ UNCHANGED <<keywords, max_articles, fetched, all_articles, fpc,
                   score_calls, selected, cfgVars, mainVars, sumVars, callVars,
                   sendVars>>

\* score_article is invoked on one article; nothing is assigned to it.
ScoreArticleCall ==
    /\ Len(score_calls) < MaxScoreCalls
    /\ \E i \in 1..Len(all_articles) :
         score_calls' = Append(score_calls,
             ScoreCall(all_articles[i].id, now,
                       ScoreArticle(all_articles[i], keywords, now)))
    /\ UNCHANGED <<keywords, max_articles, now, fetched, all_articles, fpc,
                   selected, cfgVars, mainVars, sumVars, callVars, sendVars>>

\* ----------------------------------------------- filter.py: filter_articles
\* The sort key (score, published) compared.
KeyLess(x, y) ==
    \/ x.score < y.score
    \/ x.score = y.score /\ x.article.published < y.article.published

\* Place x in a list sorted from high to low, behind what is not lower.
RECURSIVE InsertReverse(_, _)
InsertReverse(sorted, x) ==
    IF sorted = <<>> THEN <<x>>
    ELSE IF KeyLess(Head(sorted), x) THEN <<x>> \o sorted
    ELSE <<Head(sorted)>> \o InsertReverse(Tail(sorted), x)

\* list.sort(key=..., reverse=True): stable, equal keys keep their order.
RECURSIVE SortReverse(_)
SortReverse(s) ==
    IF s = <<>> THEN <<>>
    ELSE InsertReverse(SortReverse(SubSeq(s, 1, Len(s) - 1)), s[Len(s)])

\* Variant: the list is cut to max before it is sorted.
TruncateThenSort(scored, max) ==
    SortReverse(SubSeq(scored, 1, Min(max, Len(scored))))

\* scored.sort(...) followed by scored[:max_articles], for max >= 0.
SortThenTruncate(scored, max) ==
    SubSeq(SortReverse(scored), 1, Min(max, Len(scored)))

\* Variant: a score of 0 is kept.
KeepsScoreAtLeastZero(score) == score >= 0

\* `if score > 0`
KeepsScore(score) == score > 0

\* Variant: the matched keywords are stored from high to low.
StoredKeywordsReversed(matched_kws) ==
    [k \in 1..Len(matched_kws) |-> matched_kws[Len(matched_kws) + 1 - k]]

\* article.matched_keywords = matched_kws
StoredKeywords(matched_kws) == matched_kws

\* The loop over the articles, the clock reading clock[k] at the k-th
\* score_article: per article its score, its matched keywords and the article
\* as the loop leaves it.
RECURSIVE ScoreLoop(_, _, _)
ScoreLoop(arts, kws, clock) ==
    IF arts = <<>> THEN <<>>
    ELSE LET article == Head(arts)
             r       == ScoreArticle(article, kws, Head(clock))
         IN <<[score       |-> r.score,
               matched_kws |-> r.matched_kws,
               article     |-> IF KeepsScore(r.score)
                               THEN [article EXCEPT !.matched_keywords =
                                        StoredKeywords(r.matched_kws)]
                               ELSE article]>>
            \o ScoreLoop(Tail(arts), kws, Tail(clock))

\* filter_articles: the list with its articles as mutated, the results of the
\* scorer and the list returned.
FilterArticles(arts, kws, max, clock) ==
    LET loop   == ScoreLoop(arts, kws, clock)
        scored == SelectSeq(loop, LAMBDA x : KeepsScore(x.score))
        top    == SortThenTruncate(scored, max)
    IN [articles |-> [k \in 1..Len(loop) |-> loop[k].article],
        scores   |-> loop,
        selected |-> [k \in 1..Len(top) |-> top[k].article]]

\* Clock readings of n successive calls, none before t.
Clocks(n, t) ==
    { c \in [1..n -> t..MaxNow] : \A k \in 1..(n - 1) : c[k] <= c[k + 1] }

\* The whole of filter_articles with the given clock readings.
FilterArticlesAt(clock) ==
    /\ fpc = "called"
    /\ \E r \in {FilterArticles(all_articles, keywords, max_articles, clock)} :
         /\ all_articles' = r.articles
         /\ articles' = r.selected
         /\ selected' = r.selected
         /\ score_calls' = score_calls \o
               [k \in 1..Len(all_articles) |->
                   ScoreCall(all_articles[k].id, clock[k], r.scores[k])]
    /\ now' = IF clock = <<>> THEN now ELSE clock[Len(clock)]
    /\ fpc' = "returned"
    /\ UNCHANGED <<keywords, max_articles, fetched, cfgVars, sumVars, callVars,
                   sendVars>>

\* filter_articles called on its own; the clock may advance between the calls
\* of score_article.
FilterArticlesCall ==
    /\ \E clock \in Clocks(Len(all_articles), now) : FilterArticlesAt(clock)
    /\ UNCHANGED <<mpc, exit_status, trace>>


\* ------------------------------------------------- main.py: steps 1 and 2
\* An article as fetch_articles builds it; id stands for the object.
FetchedArticle(i, title, description, source_id, published) ==
    [id |-> i, title |-> title, description |-> description,
     source_id |-> source_id, published |-> published,
     summary |-> "", matched_keywords |-> <<>>]

\* Lists of up to n articles whose content is drawn from a catalogue of
\* <<title, description, source_id, age in hours at Now0>>.
FetchedLists(catalogue, n) ==
    UNION { { [i \in 1..m |-> FetchedArticle(i, c[i][1], c[i][2], c[i][3],
                                             Now0 - c[i][4])] :
              c \in [1..m -> catalogue] } : m \in 0..n }

KwAi  == <<"a", "i">>
KwAI  == <<"A", "I">>
KwCpp == <<"c", "+", "+">>

TitleNews    == <<"n", "e", "w", "s">>
TitleAiTwice == <<"A", "I", " ", "a", "i">>
TitleDotted  == <<"a", ".", "i", "!">>
TitleCpp     == <<"C", "+", "+">>
DescNone     == <<>>
DescAi       == <<"a", "i", " ", "n", "e", "w", "s">>

\* What a run of main may fetch: a fresh article on the keyword and an old
\* one off it.
MainCatalogue ==
    { <<TitleAiTwice, DescAi, "devto", 1>>,
      <<TitleNews, DescNone, "devto", DAYS_30>> }

DEFAULT_MAX_ARTICLES == 10

\* `return` from main: the process ends with status 0.
RETURN_EXIT_STATUS == 0

\* main, step 1: fetch_all, and `if not all_articles: return`.
MainStep1 ==
    /\ mpc = "step1"
    /\ \E arts \in FetchedLists(MainCatalogue, MaxArticles) :
         /\ fetched' = arts
         /\ all_articles' = arts
         /\ IF arts = <<>>
            THEN /\ mpc' = "exited"
                 /\ exit_status' = RETURN_EXIT_STATUS
                 /\ UNCHANGED fpc
            ELSE /\ mpc' = "step2"
                 /\ fpc' = "called"
                 /\ UNCHANGED exit_status
    /\ UNCHANGED <<articles, trace, keywords, max_articles, now, score_calls,
                   selected, cfgVars, sumVars, callVars, sendVars>>

\* Variant: the run goes on to notify when nothing matched.
AfterFilterNotifyAnyway(filtered) == "step3"

\* `if not filtered: return`
AfterFilter(filtered) == IF filtered = <<>> THEN "exited" ELSE "step3"

\* main, step 2: filter_articles, and `if not filtered: return`. The clock
\* stands still while main runs.
MainStep2 ==
    /\ mpc = "step2"
    /\ FilterArticlesAt([k \in 1..Len(all_articles) |-> now])
    /\ mpc' = AfterFilter(articles')
    /\ exit_status' = RETURN_EXIT_STATUS
    /\ UNCHANGED trace

\* ------------------------------------------------- idle values of the parts
CfgIdle ==
    /\ ai_enabled = FALSE /\ ai_provider = NoValue /\ summary_prompt = ""
    /\ api_key = "" /\ dry_run = FALSE /\ webhook_url = ""
MainIdle == mpc = "idle" /\ exit_status = 0 /\ trace = <<>>
SumIdle  == provider = NoProvider /\ delay = 0 /\ idx = 0
CallIdle ==
    /\ cpc = "idle" /\ backend = NoProvider /\ attempt = 0
    /\ outcomes = <<>> /\ result = ""
SendIdle ==
    /\ npc = "idle" /\ all_embeds = <<>> /\ chunk_start = 0
    /\ success = TRUE /\ posts = <<>> /\ sent = FALSE
FilterIdle ==
    /\ keywords = <<>> /\ max_articles = DEFAULT_MAX_ARTICLES /\ now = Now0
    /\ fetched = <<>> /\ all_articles = <<>> /\ fpc = "idle"
    /\ score_calls = <<>> /\ selected = <<>>

\* ------------------------------------------------------------------ inputs
ProviderNames ==
    {"claude", "chatgpt", "gemini", "Gemini", " gemini", "CLAUDE ", "bogus"}

Templates == {"{title} {description}", "{title} {body}"}

WebhookUrls == {"", "https://discord.example/api/webhooks/1"}

\* An article as send_notification reads it.
Article(i, kws, summary) ==
    [id |-> i, summary |-> summary, matched_keywords |-> kws]

\* ---------------------------------------- specification: one call on its own
InitCall ==
    /\ CfgIdle /\ MainIdle /\ SumIdle /\ SendIdle /\ FilterIdle
    /\ articles = <<>>
    /\ backend \in Backends
    /\ cpc = "try" /\ attempt = 1
    /\ outcomes = <<>> /\ result = ""

NextCall == CallAttempt \/ CallExhausted

SpecCall == InitCall /\ [][NextCall]_vars

\* call is straight-line code in one thread: a started call keeps running.
SpecCallFair == SpecCall /\ WF_vars(NextCall)

\* --------------------------- specification: send_notification on its own
InitSend ==
    /\ MainIdle /\ SumIdle /\ CallIdle /\ FilterIdle
    /\ ai_enabled = FALSE /\ ai_provider = NoValue /\ summary_prompt = ""
    /\ api_key = ""
    /\ dry_run \in BOOLEAN
    /\ webhook_url \in WebhookUrls
    /\ \E m \in 0..MaxSendArticles, kws \in {<<>>, <<"ai">>}, s \in {"", "summary"} :
          articles = [i \in 1..m |-> Article(i, kws, s)]
    /\ npc = "called" /\ all_embeds = <<>> /\ chunk_start = 0
    /\ success = TRUE /\ posts = <<>> /\ sent = FALSE

NextSend == SendNotification \/ SendChunk \/ SendReturn

SpecSend == InitSend /\ [][NextSend]_vars

\* ------------------------------- specification: score_article on its own
Titles       == {TitleNews, TitleAiTwice, TitleDotted, TitleCpp}
Descriptions == {DescNone, DescAi}

\* Ages at Now0, in hours: on, just before and far from the three boundaries.
Ages == {1, HOURS_24 - 1, HOURS_24, DAYS_7 - 1, DAYS_7, DAYS_30 - 1, DAYS_30}

KeywordLists ==
    {<<>>, <<KwAi>>, <<KwAi, KwAI>>, <<KwAi, KwAi>>, <<KwCpp, KwAi>>}

ScoreCatalogue == Titles \X Descriptions \X SourceIds \X Ages

InitScore ==
    /\ CfgIdle /\ MainIdle /\ SumIdle /\ CallIdle /\ SendIdle
    /\ articles = <<>>
    /\ keywords \in KeywordLists
    /\ max_articles = DEFAULT_MAX_ARTICLES
    /\ now = Now0
    /\ fetched \in FetchedLists(ScoreCatalogue, 1)
    /\ fetched # <<>>
    /\ all_articles = fetched
    /\ fpc = "idle"
    /\ score_calls = <<>> /\ selected = <<>>

NextScore == Tick \/ ScoreArticleCall

SpecScore == InitScore /\ [][NextScore]_vars

\* ----------------------------- specification: filter_articles on its own
\* Articles that tie, that cross a boundary while the clock advances, and
\* that score nothing.
FilterCatalogue ==
    { <<TitleAiTwice, DescAi, "devto", 1>>,
      <<TitleNews, DescNone, "devto", DAYS_30>>,
      <<TitleDotted, DescNone, "devto", DAYS_30 - 1>>,
      <<TitleDotted, DescNone, "devto", DAYS_30>>,
      <<TitleNews, DescNone, "aws_blog", DAYS_30 - 1>> }

FilterKeywordLists == {<<KwAi>>, <<KwAi, KwAI>>}

InitFilter ==
    /\ CfgIdle /\ MainIdle /\ SumIdle /\ CallIdle /\ SendIdle
    /\ articles = <<>>
    /\ keywords \in FilterKeywordLists
    /\ max_articles \in 0..MaxFilterArticles
    /\ now = Now0
    /\ fetched \in FetchedLists(FilterCatalogue, MaxFilterArticles)
    /\ all_articles = fetched
    /\ fpc = "called"
    /\ score_calls = <<>> /\ selected = <<>>

NextFilter == FilterArticlesCall

SpecFilter == InitFilter /\ [][NextFilter]_vars

\* ------------------------------------------- specification: a run of main
Init ==
    /\ ai_enabled \in BOOLEAN
    /\ ai_provider \in ProviderNames \cup {NoValue}
    /\ summary_prompt \in Templates
    /\ api_key \in {"", "key"}
    /\ dry_run \in BOOLEAN
    /\ webhook_url \in WebhookUrls
    /\ keywords = <<KwAi>>
    /\ max_articles \in {1, DEFAULT_MAX_ARTICLES}
    /\ now = Now0
    /\ mpc = "step1" /\ exit_status = 0 /\ trace = <<>>
    /\ articles = <<>>
    /\ fetched = <<>> /\ all_articles = <<>> /\ fpc = "idle" /\ score_calls = <<>>
    /\ selected = <<>>
    /\ SumIdle /\ CallIdle /\ SendIdle

Next ==
    \/ MainStep1
    \/ MainStep2
    \/ SummarizeAllEnter
    \/ SummarizeSkip
    \/ SummarizeArticleCall
    \/ CallAttempt
    \/ CallExhausted
    \/ SummarizeArticleStore
    \/ SummarizeArticleRaise
    \/ SummarizeAllReturn
    \/ MainStep4
    \/ SendNotification
    \/ SendChunk
    \/ SendReturn
    \/ MainExit

Spec == Init /\ [][Next]_vars

\* =================================================================== claims
AllRateLimited == \A k \in 1..Len(outcomes) : outcomes[k].kind = "rate"
CallEnded      == cpc \in {"returned", "raised"}

\* C1: for every backend and every sequence of backend outcomes, a generate
\* call ends by returning a string; no exception ever leaves call.
C1_NoExceptionEscapes == cpc # "raised"

\* At most maxAttempts invocations, numbered in order; "" when all of them
\* were rate-limited.
C2_Safety ==
    /\ Len(outcomes) <= (IF backend \in {"claude", "chatgpt"} THEN 3 ELSE 5)
    /\ \A k \in 1..Len(outcomes) : outcomes[k].attempt = k
    /\ (AllRateLimited /\ CallEnded) => (cpc = "returned" /\ result = "")

\* C2: one call invokes the backend at most maxAttempts times (3 for claude and
\* chatgpt, 5 for gemini), the attempts are numbered 1, 2, ... in order, a call
\* whose every attempt was rate-limited returns the empty string, and every
\* call ends, also when the backend answers rate-limited every time.
C2_BoundedAttempts == []C2_Safety /\ <>CallEnded

C2_Witness ==
    /\ backend = "gemini" /\ cpc = "returned" /\ result = ""
    /\ Len(outcomes) = 5 /\ AllRateLimited

\* C3: only rate-limit failures are retried: a not-found error or any other
\* API error that is no rate-limit error, on attempt k, ends the call at once:
\* "" is returned, the backend was invoked exactly k times, and no sleep
\* follows that failure.
C3_OnlyRateLimitedRetried ==
    \A k \in 1..Len(outcomes) :
        outcomes[k].kind \in {"notfound", "other"} =>
            /\ cpc = "returned" /\ result = ""
            /\ Len(outcomes) = k /\ outcomes[k].attempt = k
            /\ outcomes[k].wait = NoSleep

\* The backoff schedule of spec section 4.3 with the constants spelled out, in
\* tenths of a second.
ClaimedBackoff(b, a) ==
    IF b = "gemini"
    THEN CASE a = 1 -> 50 [] a = 2 -> 100 [] a = 3 -> 200 [] OTHER -> 300
    ELSE 20 * a

\* C4: the sleep requested after a rate-limited failure on attempt a is
\* 2.0 * a s for claude and chatgpt and min(5.0 * 2^(a-1), 30.0) s for gemini;
\* two rate-limit responses followed by a success give exactly 3 attempts, a
\* total backoff of 6 s (claude, chatgpt) or 15 s (gemini), and the call
\* returns the generated text.
C4_BackoffSchedule ==
    /\ \A k \in 1..Len(outcomes) :
          outcomes[k].kind = "rate" =>
              outcomes[k].wait = ClaimedBackoff(backend, outcomes[k].attempt)
    /\ (Len(outcomes) = 2 /\ AllRateLimited) => (cpc = "try" /\ attempt = 3)
    /\ ( /\ Len(outcomes) >= 3
         /\ outcomes[1].kind = "rate" /\ outcomes[2].kind = "rate"
         /\ outcomes[3].kind = "ok" ) =>
            /\ Len(outcomes) = 3 /\ cpc = "returned"
            /\ result = Strip(outcomes[3].text)
            /\ outcomes[1].wait + outcomes[2].wait =
                   (IF backend = "gemini" THEN 150 ELSE 60)

C4_Witness ==
    /\ backend = "gemini" /\ cpc = "returned" /\ result = "summary"
    /\ Len(outcomes) = 3
    /\ outcomes[1].kind = "rate" /\ outcomes[2].kind = "rate"
    /\ outcomes[3].kind = "ok"

\* ------------------------------------------------ summarize_all (C5 .. C7)
CallEvents   == SelectSeq(trace, LAMBDA e : e.ev = "call")
ReturnEvents == SelectSeq(trace, LAMBDA e : e.ev = "return")
PaceEvents   == SelectSeq(trace, LAMBDA e : e.ev = "pace")
Constructions == SelectSeq(trace, LAMBDA e : e.ev = "construct")
SummarizeAllReturned == \E k \in 1..Len(trace) : trace[k].ev = "summarized"

\* C5: summarize_all calls the gateway once per article, in list order, and
\* stores each call's result in that article's summary; a call that returned
\* "" stops nothing, so once summarize_all has returned every article was
\* called for and holds the result of its own call.
C5_OneCallPerArticleInOrder ==
    /\ \A j \in 1..Len(CallEvents) : CallEvents[j].i = j
    /\ \A j \in 1..Len(ReturnEvents) :
          /\ ReturnEvents[j].i = j
          /\ articles[j].summary = ReturnEvents[j].text
    /\ SummarizeAllReturned =>
          /\ Len(CallEvents) = Len(articles)
          /\ Len(ReturnEvents) = Len(articles)

C5_Witness ==
    /\ SummarizeAllReturned
    /\ Len(articles) = 2
    /\ articles[1].summary = "" /\ articles[2].summary = "summary"

\* C6: one pacing sleep follows every gateway call that returned, the last
\* one included, whatever the call returned and however often it retried: the
\* sleep comes right after the call and before the next call, and N articles
\* give N pacing sleeps.
C6_PaceAfterEveryCall ==
    /\ \A k \in 1..Len(trace) :
          /\ trace[k].ev = "return" =>
                /\ k < Len(trace)
                /\ trace[k + 1].ev = "pace" /\ trace[k + 1].i = trace[k].i
                /\ trace[k + 1].wait = delay
          /\ trace[k].ev = "pace" =>
                /\ k > 1
                /\ trace[k - 1].ev = "return" /\ trace[k - 1].i = trace[k].i
          /\ (trace[k].ev = "call" /\ trace[k].i > 1) =>
                trace[k - 1].ev = "pace" /\ trace[k - 1].i = trace[k].i - 1
    /\ Len(PaceEvents) = Len(ReturnEvents)
    /\ SummarizeAllReturned => Len(PaceEvents) = Len(articles)

C6_Witness ==
    /\ SummarizeAllReturned
    /\ Len(articles) = 2 /\ Len(PaceEvents) = 2
    /\ articles[1].summary = "summary"
    /\ articles[2].summary = "" /\ Len(outcomes) = 3
    /\ trace[Len(trace) - 1].ev = "pace"

\* The configurations get_provider refuses.
UnknownProviderName == ai_provider = "bogus"
MissingCredential   == api_key = ""

\* C7: with generation enabled one provider instance is built per batch, before
\* the first gateway call; with an unknown backend name or a missing
\* credential the run ends in a fatal error before any article is processed:
\* no gateway call, no summary modified, no POST.
C7_OneProviderOrFatal ==
    /\ Len(Constructions) <= 1
    /\ CallEvents # <<>> => trace[1].ev = "construct"
    /\ SummarizeAllReturned => Len(Constructions) = 1
    /\ ~ai_enabled => Constructions = <<>>
    /\ (ai_enabled /\ (UnknownProviderName \/ MissingCredential)) =>
          /\ trace = <<>>
          /\ cpc = "idle" /\ outcomes = <<>>
          /\ \A i \in 1..Len(articles) : articles[i].summary = ""
          /\ posts = <<>> /\ npc = "idle"
          /\ mpc \in {"step1", "step2", "step3", "exited"}
          /\ (mpc = "exited" /\ articles # <<>>) => exit_status # 0

C7_Witness ==
    /\ ai_enabled /\ MissingCredential /\ ~UnknownProviderName
    /\ mpc = "exited" /\ exit_status = 1 /\ trace = <<>>

\* -------------------------------------------- send_notification (C8 .. C10)
RECURSIVE Flatten(_)
Flatten(ps) == IF ps = <<>> THEN <<>> ELSE Head(ps).embeds \o Flatten(Tail(ps))

Delivering == ~dry_run /\ webhook_url # "" /\ articles # <<>>

\* C8: N >= 1 articles sent outside dry-run to a non-empty endpoint give
\* exactly ceil((N+1)/10) POSTs of 1..10 embeds each, N+1 in all, which put end
\* to end are the header followed by the articles' embeds in list order.
C8_Chunking ==
    (Delivering /\ npc = "returned") =>
        LET N == Len(articles) IN
        /\ Len(posts) = (N + 1 + 9) \div 10
        /\ \A k \in 1..Len(posts) :
              Len(posts[k].embeds) >= 1 /\ Len(posts[k].embeds) <= 10
        /\ Len(Flatten(posts)) = N + 1
        /\ \A j \in 1..Len(Flatten(posts)) : Flatten(posts)[j].title = j - 1
        /\ Flatten(posts)[1].count = N
        /\ N = 10 => ( /\ Len(posts) = 2
                       /\ Len(posts[1].embeds) = 10
                       /\ Len(posts[2].embeds) = 1 )

C8_Witness ==
    /\ Delivering /\ npc = "returned"
    /\ Len(articles) = 10 /\ Len(posts) = 2

\* The k-th chunk of the embeds as built.
BuiltChunk(k) ==
    SubSeq(all_embeds, 10 * (k - 1) + 1,
           IF 10 * k < Len(all_embeds) THEN 10 * k ELSE Len(all_embeds))

\* C9: every chunk is POSTed exactly once, in build order, whatever happened to
\* the chunks before it: the k-th POST carries the k-th chunk, and a failed
\* chunk neither stops the later ones nor is sent again.
C9_EveryChunkOnceInOrder ==
    /\ \A k \in 1..Len(posts) : posts[k].embeds = BuiltChunk(k)
    /\ (Delivering /\ npc = "returned") =>
          Len(posts) = (Len(all_embeds) + 9) \div 10
    /\ (npc = "loop" /\ 10 * Len(posts) < Len(all_embeds)) => ENABLED SendChunk

C9_Witness ==
    /\ Delivering /\ npc = "returned"
    /\ Len(posts) = 3
    /\ posts[1].outcome = "timeout" /\ posts[2].outcome = "http_error"
    /\ posts[3].outcome = "ok"

AllDelivered == \A k \in 1..Len(posts) : posts[k].outcome = "ok"

\* C10: outside dry-run, for a non-empty list, send_notification returns true
\* exactly when every chunk's POST succeeded; a chunk delivered after a failed
\* one does not set the flag again.
C10_SuccessIsConjunction ==
    /\ (Delivering /\ npc = "loop") => (success <=> AllDelivered)
    /\ (Delivering /\ npc = "returned") => (sent <=> AllDelivered)

C10_Witness ==
    /\ Delivering /\ npc = "returned" /\ ~sent
    /\ Len(posts) = 3
    /\ posts[1].outcome = "ok" /\ posts[2].outcome = "connection_error"
    /\ posts[3].outcome = "ok"

\* ------------------------------- send_notification's early exits (C11 .. C13)
\* C11 as stated: with dry_run set, for any list and any endpoint, no POST is
\* made and the call reports success.
C11_DryRunAlwaysSucceeds ==
    dry_run => ( /\ posts = <<>>
                 /\ npc # "raised"
                 /\ npc = "returned" => sent )

\* C11: with dry_run set, for any list and any endpoint (the empty one
\* included) no POST is made and the call does not raise; it reports success
\* when the list is non-empty and failure when the list is empty.
C11_DryRunNoPost ==
    dry_run => ( /\ posts = <<>>
                 /\ npc \notin {"raised", "loop"}
                 /\ npc = "returned" => (sent <=> articles # <<>>) )

C11_Witness ==
    /\ dry_run /\ webhook_url = "" /\ Len(articles) = 11
    /\ npc = "returned" /\ sent /\ Len(all_embeds) = 12

\* C12: called with an empty list, send_notification reports failure, makes no
\* POST and does not raise, whatever dry_run and the endpoint are.
C12_EmptyListFails ==
    articles = <<>> => ( /\ posts = <<>>
                         /\ npc \notin {"raised", "loop"}
                         /\ npc = "returned" => ~sent )

C12_Witness ==
    /\ articles = <<>> /\ dry_run /\ webhook_url # ""
    /\ npc = "returned" /\ ~sent

\* C13: called outside dry-run with a non-empty list and an empty endpoint,
\* send_notification raises and no chunk is POSTed.
C13_MissingEndpointRaises ==
    (~dry_run /\ articles # <<>> /\ webhook_url = "") =>
        ( /\ posts = <<>>
          /\ npc \in {"called", "raised"}
          /\ ~sent )

C13_Witness ==
    /\ ~dry_run /\ Len(articles) = 20 /\ webhook_url = ""
    /\ npc = "raised" /\ posts = <<>>

\* ------------------------------------------- the run's outcome (C14, C15)
\* fetch_all has returned an empty list.
NothingFetched == mpc # "step1" /\ fetched = <<>>

\* filter_articles has returned an empty list.
NothingSelected == fpc = "returned" /\ articles = <<>>

\* Neither a gateway call nor a POST has been made, nor prepared.
NoGenerationNoPost ==
    /\ trace = <<>> /\ outcomes = <<>> /\ cpc = "idle" /\ provider = NoProvider
    /\ posts = <<>> /\ npc = "idle"

\* C14 as stated: a run that fetches nothing, or selects nothing, does not end
\* with exit status 0, and makes no gateway call and no POST.
C14_EmptyRunEscalated ==
    (NothingFetched \/ NothingSelected) =>
        ( /\ NoGenerationNoPost
          /\ mpc = "exited" => exit_status # 0 )

\* C14: a run that fetches nothing, or selects nothing, is not escalated: main
\* returns at once, the run ends with exit status 0, and no gateway call and
\* no POST is made.
C14_EmptyRunReturns ==
    (NothingFetched \/ NothingSelected) =>
        ( /\ NoGenerationNoPost
          /\ mpc = "exited" /\ exit_status = 0 )

C14_Witness ==
    /\ NothingSelected /\ Len(fetched) = MaxArticles
    /\ ai_enabled /\ ai_provider = "gemini" /\ api_key = "key" /\ ~dry_run
    /\ webhook_url # ""
    /\ mpc = "exited" /\ exit_status = 0

\* send_notification has been called in this run.
ReachedDelivery == npc # "idle"

SomeChunkFailed == \E k \in 1..Len(posts) : posts[k].outcome # "ok"

\* C15: a run that reaches delivery ends with a non-zero status exactly when
\* some chunk failed or the missing endpoint was raised, with 0 otherwise;
\* summaries left empty by the gateway do not change the status.
C15_ExitStatus ==
    (mpc = "exited" /\ ReachedDelivery) =>
        /\ exit_status \in {0, 1}
        /\ exit_status # 0 <=> (SomeChunkFailed \/ npc = "raised")
        /\ npc = "raised" <=> (~dry_run /\ webhook_url = "")

C15_Witness ==
    /\ mpc = "exited" /\ ReachedDelivery /\ exit_status = 0
    /\ ai_enabled /\ Len(articles) = 2 /\ Len(outcomes) > 0
    /\ \A i \in 1..Len(articles) : articles[i].summary = ""
    /\ posts # <<>> /\ ~SomeChunkFailed

\* ------------------------------------------------ filter_articles (C16 .. C18)
\* filter_articles, called on its own, has returned: score_calls[k] is what
\* score_article returned for the k-th article of the input.
Selected == fpc = "returned" /\ Len(score_calls) = Len(fetched)

\* Positions in the input of the articles whose score was positive.
Eligible == {k \in 1..Len(fetched) : score_calls[k].score > 0}

\* Positions in the input of the articles returned.
Returned == {articles[j].id : j \in 1..Len(articles)}

\* C16: filter_articles returns exactly min(number of articles with score > 0,
\* max_articles) articles, distinct members of the input, none of them with a
\* score <= 0; an article with score > 0 is missing only when the list was cut
\* at max_articles.
C16_SelectionSize ==
    Selected =>
        /\ Len(articles) =
              (IF Cardinality(Eligible) < max_articles
               THEN Cardinality(Eligible) ELSE max_articles)
        /\ \A j \in 1..Len(articles) :
              /\ articles[j].id \in 1..Len(fetched)
              /\ articles[j] = all_articles[articles[j].id]
              /\ \A l \in 1..Len(articles) : articles[l].id = articles[j].id => l = j
        /\ Returned \subseteq Eligible
        /\ Returned # Eligible => Len(articles) = max_articles

C16_Witness ==
    /\ Selected /\ Len(fetched) = 3 /\ max_articles = 1
    /\ Cardinality(Eligible) = 2 /\ Len(articles) = 1

\* x ranks strictly above y in the order (score, published), high to low.
RanksAbove(x, y) ==
    \/ score_calls[x.id].score > score_calls[y.id].score
    \/ /\ score_calls[x.id].score = score_calls[y.id].score
       /\ x.published > y.published

\* C17: the list returned is ordered by score from high to low and, among equal
\* scores, by published from late to early; it is cut after sorting, so no
\* article with score > 0 that was left out ranks strictly above one returned.
C17_Ordering ==
    Selected =>
        /\ \A j \in 1..Len(articles) : \A l \in (j + 1)..Len(articles) :
              ~RanksAbove(articles[l], articles[j])
        /\ \A k \in Eligible \ Returned : \A j \in 1..Len(articles) :
              ~RanksAbove(all_articles[k], articles[j])

C17_Witness ==
    /\ Selected /\ Len(fetched) = 3 /\ Cardinality(Eligible) = 3
    /\ Len(articles) = 2
    /\ score_calls[articles[1].id].score = score_calls[articles[2].id].score
    /\ articles[1].published > articles[2].published
    /\ articles[1].id > articles[2].id

\* The keywords are in strictly rising order: sorted and free of duplicates.
StrictlySorted(kws) ==
    \A j \in 1..Len(kws) : \A l \in (j + 1)..Len(kws) :
        kws[j] # kws[l] /\ ~StrLess(kws[l], kws[j])

\* Every article returned carries the matched keywords the scorer gave for it.
ReturnedCarryMatched ==
    \A j \in 1..Len(articles) :
        /\ articles[j].matched_keywords = score_calls[articles[j].id].matched_kws
        /\ StrictlySorted(articles[j].matched_keywords)

\* C18 as stated: every article returned carries its matched keywords, and
\* every article of the input that is not returned, dropped or cut off, has
\* its matched_keywords as before the call.
C18_OnlyReturnedMutated ==
    Selected =>
        /\ ReturnedCarryMatched
        /\ \A k \in (1..Len(fetched)) \ Returned :
              all_articles[k].matched_keywords = fetched[k].matched_keywords

\* C18: every article returned carries the sorted, duplicate-free matched
\* keywords the scorer computed for it; an article dropped for a score <= 0
\* has its matched_keywords as before the call; an article with score > 0 that
\* was cut off by max_articles carries its matched keywords like those returned.
C18_MatchedKeywordsStored ==
    Selected =>
        /\ ReturnedCarryMatched
        /\ \A k \in 1..Len(fetched) :
              /\ all_articles[k].matched_keywords =
                    (IF k \in Eligible THEN score_calls[k].matched_kws
                     ELSE fetched[k].matched_keywords)
              /\ all_articles[k] =
                    [fetched[k] EXCEPT !.matched_keywords =
                                           all_articles[k].matched_keywords]

C18_Witness ==
    /\ Selected /\ Len(fetched) = 3 /\ Len(articles) = 1
    /\ Len(articles[1].matched_keywords) = 2
    /\ \E k \in Eligible \ Returned :
          /\ all_articles[k].matched_keywords # <<>>
          /\ fetched[k].matched_keywords = <<>>
    /\ \E k \in (1..Len(fetched)) \ Eligible : TRUE

\* --------------------------------------------------- score_article (C19, C20)
\* Places in the normalized text at which the normalized keyword stands.
Occurrences(text, kw) ==
    LET t == Normalize(text)
        w == Normalize(kw)
    IN Cardinality({p \in 1..(Len(t) - Len(w) + 1) :
                       SubSeq(t, p, p + Len(w) - 1) = w})

RECURSIVE SumOver(_, _, _)
SumOver(kwset, text, acc) ==
    IF kwset = {} THEN acc
    ELSE LET kw == CHOOSE k \in kwset : TRUE
         IN SumOver(kwset \ {kw}, text, acc + Occurrences(text, kw))

\* Occurrences in the text of all the keywords of the list, as a set.
TotalOccurrences(text, kws) ==
    SumOver({kws[k] : k \in 1..Len(kws)}, text, 0)

\* The freshness tiers of spec section 4.1, ages in hours.
FreshnessBand(age) ==
    IF age < 24 THEN "day"
    ELSE IF age < 168 THEN "week"
    ELSE IF age < 720 THEN "month"
    ELSE "old"

\* (3 x title occurrences + description occurrences + freshness) x trust, in
\* hundredths.
ClaimedScore(article, kws, t) ==
    LET band      == FreshnessBand(t - article.published)
        freshness == CASE band = "day"   -> 500
                       [] band = "week"  -> 200
                       [] band = "month" -> 50
                       [] band = "old"   -> 0
        trust     == IF article.source_id \in {"aws_blog", "databricks_blog"}
                     THEN 130 ELSE 100
    IN ((300 * TotalOccurrences(article.title, kws)
         + 100 * TotalOccurrences(article.description, kws)
         + freshness) * trust) \div 100

C20_SameResultAnyTime ==
    /\ all_articles = fetched
    /\ \A c \in 1..Len(score_calls) : \A d \in 1..Len(score_calls) :
          score_calls[c].i = score_calls[d].i =>
              /\ score_calls[c].score = score_calls[d].score
              /\ score_calls[c].matched_kws = score_calls[d].matched_kws

\* The freshness tier of the article of a call at the time of the call.
BandAt(c) == FreshnessBand(score_calls[c].at - fetched[score_calls[c].i].published)

\* C20: two invocations on the same article and keywords give the same matched
\* keywords at any two points of a run, and the same score whenever the
\* article's age lies in the same freshness tier at both; neither invocation
\* modifies the article.
C20_SameResultSameBand ==
    /\ all_articles = fetched
    /\ \A c \in 1..Len(score_calls) : \A d \in 1..Len(score_calls) :
          score_calls[c].i = score_calls[d].i =>
              /\ score_calls[c].matched_kws = score_calls[d].matched_kws
              /\ BandAt(c) = BandAt(d) =>
                    score_calls[c].score = score_calls[d].score

C20_Witness ==
    /\ Len(score_calls) = 2
    /\ score_calls[1].at < score_calls[2].at
    /\ BandAt(1) = "week" /\ BandAt(2) = "week"
    /\ score_calls[1].score = score_calls[2].score
    /\ Len(score_calls[1].matched_kws) = 2

\* ------------------------------------------------- pacing by backend (C21)
\* C21: the pacing delay of a batch is that of the backend instantiated for
\* it, 5.0 s for gemini and 0.5 s for claude and chatgpt, for every provider
\* name get_provider accepts, whatever its case and surrounding whitespace.
C21_DelayMatchesBackend ==
    provider # NoProvider =>
        delay = (IF provider = "gemini" THEN 50 ELSE 5)

\* ------------------------------------------- selection and keywords (C22)
\* C22: every article filter_articles returns matched at least one keyword:
\* its matched_keywords is non-empty, and an article without any occurrence of
\* a keyword in title and description is never returned, whatever its age and
\* source.
C22_SelectedMatchedKeyword ==
    Selected =>
        \A j \in 1..Len(articles) :
            /\ articles[j].matched_keywords # <<>>
            /\ TotalOccurrences(articles[j].title, keywords)
               + TotalOccurrences(articles[j].description, keywords) > 0

\* ------------------------------------------- sleeps of one call (C23)
\* Invocations of the backend that were followed by a backoff sleep, and those
\* that failed rate-limited.
SleptAfter  == {k \in 1..Len(outcomes) : outcomes[k].wait # NoSleep}
RateLimited == {k \in 1..Len(outcomes) : outcomes[k].kind = "rate"}

\* C23: in one call every rate-limited failure is followed by one backoff
\* sleep, the one on the last attempt included: a call that uses up its
\* attempts (3 for claude and chatgpt, 5 for gemini) has slept that many times
\* before it returns the empty string, and the number of sleeps of a call is
\* the number of its rate-limited failures.
C23_OneSleepPerRateLimit ==
    /\ RateLimited \subseteq SleptAfter
    /\ Cardinality(SleptAfter) = Cardinality(RateLimited)
    /\ (CallEnded /\ AllRateLimited /\ outcomes # <<>>) =>
          /\ cpc = "returned" /\ result = ""
          /\ Len(outcomes) = (IF backend = "gemini" THEN 5 ELSE 3)
          /\ Cardinality(SleptAfter) = Len(outcomes)

\* ------------------------------------------------ order of the stages (C24)
\* The embeds POSTed so far, end to end.
Delivered == Flatten(posts)

\* What holds of the stages in every state of a run.
C24_Frame ==
    \* the gateway is used only after filter_articles has returned
    /\ (trace # <<>> \/ cpc # "idle") => fpc = "returned"
    \* send_notification is called only after summarize_all has returned
    /\ npc # "idle" =>
          /\ fpc = "returned" /\ cpc = "idle"
          /\ mpc \in {"sending", "exited"}
          /\ ai_enabled => ( /\ SummarizeAllReturned
                             /\ Len(CallEvents) = Len(selected) )
    \* the list is the selected one, in rank order, but for the summaries
    /\ Len(articles) = Len(selected)
    /\ \A j \in 1..Len(selected) :
          /\ articles[j] = [selected[j] EXCEPT !.summary = articles[j].summary]
          /\ \A l \in (j + 1)..Len(selected) :
                ~RanksAbove(selected[l], selected[j])
    \* what is delivered is the header and then the selected articles in order
    /\ posts # <<>> => Delivered[1].count = Len(selected)
    /\ \A j \in 2..Len(Delivered) : Delivered[j].title = selected[j - 1].id
    /\ (npc = "returned" /\ ~dry_run) => Len(Delivered) = Len(selected) + 1
    \* without ai.enabled nothing of the gateway is touched
    /\ ~ai_enabled =>
          /\ trace = <<>> /\ provider = NoProvider
          /\ cpc = "idle" /\ outcomes = <<>>
          /\ \A j \in 1..Len(articles) : articles[j].summary = ""

\* What holds of every step of a run: the gateway is used only while nothing
\* has been handed to delivery, and a POST changes nothing of the articles.
C24_Step ==
    /\ (outcomes' # outcomes \/ trace' # trace) =>
          (posts' = <<>> /\ npc' = "idle")
    /\ posts' # posts => UNCHANGED <<articles, trace, outcomes>>

\* C24: the stages run in the order select, summarize (only with ai.enabled),
\* dispatch: every gateway call comes before the first POST, summarize_all
\* hands back the selected articles in the same order with nothing but
\* summary changed, so what is delivered is the selected articles in rank
\* order; without ai.enabled no provider is built and no gateway call made.
C24_StageOrder == []C24_Frame /\ [][C24_Step]_vars

C24_Witness ==
    /\ mpc = "exited" /\ npc = "returned" /\ ~dry_run /\ ai_enabled
    /\ Len(fetched) = 2 /\ Len(selected) = 2 /\ Len(CallEvents) = 2
    /\ articles[1].summary = "summary" /\ articles[2].summary = ""
    /\ Len(Delivered) = 3
    /\ Delivered[2].title = selected[1].id /\ Delivered[3].title = selected[2].id

====
